---- MODULE Spec2Model ----
(***************************************************************************)
(* EV Range Estimator: the interactive driver (main.py), the prompts       *)
(* (user_interface.py), the unit conversions (utils.py), the physics       *)
(* pipeline (physics_models.py) and the reference data (vehicle_data.py).  *)
(*                                                                         *)
(* Python floats are modelled as decimal floating-point numbers with       *)
(* Digits significant digits, round-half-even, and a smallest exponent     *)
(* MinExp below which a result underflows to zero; nan and +/-inf are      *)
(* values of their own.  A float division by zero raises                   *)
(* ZeroDivisionError, as in Python.                                        *)
(***************************************************************************)
EXTENDS Integers, Sequences, FiniteSets, TLC

\* ---------------------------------------------------------------- state

VARIABLES
    pc,            \* where main (or the function it called) stands
    locals,        \* main's local variables
    frame,         \* the local variables of the user_interface function being run
    heap,          \* the vehicle dicts: the three presets and the custom one
    GRAVITY,       \* vehicle_data.GRAVITY
    AIR_DENSITY,   \* vehicle_data.AIR_DENSITY
    io,            \* the latest pass of get_user_input's loop
    displayed,     \* what display_results printed last
    exit_printed,  \* the exit message was printed
    error,         \* the exception that ended the program, if any
    calls,         \* the functions main has called in this iteration, in order
    answer,        \* the latest line ask_continue read in this iteration
    memo,          \* an earlier run: its inputs and its results
    session,       \* the entries the user of this run types
    sweeps         \* how many times the pipeline was called again on its own

vars == <<pc, locals, frame, heap, GRAVITY, AIR_DENSITY, io, displayed,
          exit_printed, error, calls, answer, memo, session, sweeps>>

\* ------------------------------------------------------------------ floats

Digits == 4
MinExp == 0 - 16

RECURSIVE Pow10(_)
Pow10(n) == IF n <= 0 THEN 1 ELSE 10 * Pow10(n - 1)

MantMin == Pow10(Digits - 1)
MantMax == Pow10(Digits)

Abs(x) == IF x < 0 THEN 0 - x ELSE x
Sgn(x) == IF x < 0 THEN 0 - 1 ELSE IF x = 0 THEN 0 ELSE 1

Num(m, e) == [k |-> "num", m |-> m, e |-> e]
Zero == Num(0, 0)
NaN == [k |-> "nan", m |-> 0, e |-> 0]
Inf == [k |-> "inf", m |-> 1, e |-> 0]
\* a local of main that no statement has assigned yet
Unbound == [k |-> "unbound", m |-> 0, e |-> 0]
\* the outcome of a float division by zero (ZeroDivisionError is raised)
ZeroDiv == [k |-> "zerodiv", m |-> 0, e |-> 0]

IsNum(x) == x.k = "num"
IsNaN(x) == x.k = "nan"

\* sign * (n / d) * 10^e rounded to Digits significant digits, half to even
RECURSIVE RoundTo(_, _, _, _)
RoundTo(sign, n, d, e) ==
    IF n = 0 THEN Zero
    ELSE IF n \div d < MantMin THEN RoundTo(sign, n * 10, d, e - 1)
    ELSE IF n \div d >= MantMax THEN RoundTo(sign, n, d * 10, e + 1)
    ELSE LET q == n \div d
             r == n % d
             up == (2 * r > d) \/ (2 * r = d /\ q % 2 = 1)
             q1 == IF up THEN q + 1 ELSE q
             m == IF q1 = MantMax THEN MantMin ELSE q1
             e1 == IF q1 = MantMax THEN e + 1 ELSE e
         IN  IF e1 < MinExp THEN Zero ELSE Num(sign * m, e1)

\* the float nearest to the decimal literal m * 10^e
F(m, e) == RoundTo(Sgn(m), Abs(m), 1, e)

FMul(a, b) ==
    IF IsNaN(a) \/ IsNaN(b) THEN NaN
    ELSE RoundTo(Sgn(a.m) * Sgn(b.m), Abs(a.m) * Abs(b.m), 1, a.e + b.e)

FDiv(a, b) ==
    IF IsNum(b) /\ b.m = 0 THEN ZeroDiv
    ELSE IF IsNaN(a) \/ IsNaN(b) THEN NaN
    ELSE RoundTo(Sgn(a.m) * Sgn(b.m), Abs(a.m) * MantMax, Abs(b.m), a.e - b.e - Digits)

FAdd(a, b) ==
    IF IsNaN(a) \/ IsNaN(b) THEN NaN
    ELSE IF a.m = 0 THEN b
    ELSE IF b.m = 0 THEN a
    ELSE LET hi == IF a.e >= b.e THEN a ELSE b
             lo == IF a.e >= b.e THEN b ELSE a
             dd == hi.e - lo.e
         IN  IF dd > Digits + 1 THEN hi
             ELSE LET s == hi.m * Pow10(dd) + lo.m
                  IN  RoundTo(Sgn(s), Abs(s), 1, lo.e)

FNeg(a) == IF IsNum(a) THEN Num(0 - a.m, a.e) ELSE a
FSub(a, b) == FAdd(a, FNeg(b))

\* Python's a < b on floats: every comparison with nan is False
FLt(a, b) ==
    IF IsNaN(a) \/ IsNaN(b) THEN FALSE
    ELSE IF a.k = "inf" \/ b.k = "inf"
         THEN IF a.k = "inf" /\ b.k = "inf" THEN a.m < b.m
              ELSE IF a.k = "inf" THEN a.m < 0 ELSE b.m > 0
    ELSE IF Sgn(a.m) # Sgn(b.m) THEN Sgn(a.m) < Sgn(b.m)
    ELSE IF a.m = 0 THEN FALSE
    ELSE IF a.e # b.e THEN (IF a.m > 0 THEN a.e < b.e ELSE a.e > b.e)
    ELSE a.m < b.m

FGt(a, b) == FLt(b, a)
FLe(a, b) == ~IsNaN(a) /\ ~IsNaN(b) /\ ~FLt(b, a)
FGe(a, b) == FLe(b, a)

\* math.atan and math.sin, by their series to the precision of the model
\* (|x| <= 0.15 on every slope the model enters)
atan(x) ==
    LET x2 == FMul(x, x)
        x3 == FMul(x2, x)
        x5 == FMul(x3, x2)
    IN  FAdd(FSub(x, FDiv(x3, F(3, 0))), FDiv(x5, F(5, 0)))

sin(x) ==
    LET x2 == FMul(x, x)
        x3 == FMul(x2, x)
        x5 == FMul(x3, x2)
    IN  FAdd(FSub(x, FDiv(x3, F(6, 0))), FDiv(x5, F(120, 0)))


\* ----------------------------------------------------------- utils.py

\* speed_kmh / 3.6
convert_kmh_to_ms(speed_kmh) == FDiv(speed_kmh, F(36, 0 - 1))

\* speed_ms * 3.6
convert_ms_to_kmh(speed_ms) == FMul(speed_ms, F(36, 0 - 1))

\* math.atan(slope_percent / 100)
convert_slope_percent_to_radians(slope_percent) ==
    atan(FDiv(slope_percent, F(100, 0)))

\* power_watts / 1000
convert_watts_to_kwh(power_watts) == FDiv(power_watts, F(1000, 0))

\* True if the value is a number > 0 (defined in utils.py, called nowhere)
validate_positive_number(value) ==
    IF value.k \notin {"num", "nan", "inf"} THEN FALSE
    ELSE IF FLe(value, Zero) THEN FALSE
    ELSE TRUE

\* --------------------------------------------------- physics_models.py

\* mass * Crr * g
calculate_rolling_resistance(mass, Crr, g) == FMul(FMul(mass, Crr), g)

\* 0.5 * Cd * frontal_area * air_density * speed_ms ** 2
calculate_drag_force(speed_ms, Cd, frontal_area, air_density) ==
    FMul(FMul(FMul(FMul(F(5, 0 - 1), Cd), frontal_area), air_density),
         FMul(speed_ms, speed_ms))

\* the sign convention reversed: downhill positive
calculate_gradient_force_reversed(mass, slope_angle_rad, g) ==
    FNeg(FMul(FMul(mass, g), sin(slope_angle_rad)))

\* mass * g * math.sin(slope_angle_rad)
calculate_gradient_force(mass, slope_angle_rad, g) ==
    FMul(FMul(mass, g), sin(slope_angle_rad))

\* rolling_force + drag_force + gradient_force
calculate_total_resistance(rolling_force, drag_force, gradient_force) ==
    FAdd(FAdd(rolling_force, drag_force), gradient_force)

\* total_force * speed_ms
calculate_power_at_wheels(total_force, speed_ms) == FMul(total_force, speed_ms)

\* power_at_wheels / drivetrain_efficiency
calculate_power_from_battery(power_at_wheels, drivetrain_efficiency) ==
    FDiv(power_at_wheels, drivetrain_efficiency)

\* power_kwh / speed_km
calculate_energy_per_km(power_battery_watts, speed_ms) ==
    LET power_kwh == convert_watts_to_kwh(power_battery_watts)
        speed_km == convert_ms_to_kmh(speed_ms)
    IN  FDiv(power_kwh, speed_km)

\* a pipeline with memory: the usable energy is taken from what the previous
\* calculation left, where there is one
calculate_usable_battery_energy_drained(battery_capacity_kwh, usable_percent) ==
    IF IsNum(locals.usable_energy)
    THEN FMul(locals.usable_energy, usable_percent)
    ELSE FMul(battery_capacity_kwh, usable_percent)

\* battery_capacity_kwh * usable_percent
calculate_usable_battery_energy(battery_capacity_kwh, usable_percent) ==
    FMul(battery_capacity_kwh, usable_percent)

\* usable_energy_kwh / energy_per_km
calculate_range(usable_energy_kwh, energy_per_km) ==
    FDiv(usable_energy_kwh, energy_per_km)


\* ------------------------------------------------------ vehicle_data.py

COMPACT_EV_DATA ==
    [name |-> "Nissan Leaf", mass |-> F(1500, 0), drag_coefficient |-> F(28, 0 - 2),
     frontal_area |-> F(22, 0 - 1), rolling_resistance |-> F(10, 0 - 3),
     battery_capacity |-> F(50, 0)]

SUV_EV_DATA ==
    [name |-> "Volvo EX90", mass |-> F(2200, 0), drag_coefficient |-> F(32, 0 - 2),
     frontal_area |-> F(28, 0 - 1), rolling_resistance |-> F(12, 0 - 3),
     battery_capacity |-> F(80, 0)]

SPORTS_EV_DATA ==
    [name |-> "Tesla Roadster", mass |-> F(1800, 0), drag_coefficient |-> F(24, 0 - 2),
     frontal_area |-> F(20, 0 - 1), rolling_resistance |-> F(9, 0 - 3),
     battery_capacity |-> F(75, 0)]

\* the three module-level dicts, by the name that refers to each
Presets == {"COMPACT_EV", "SUV_EV", "SPORTS_EV"}

InitialHeap ==
    [o \in Presets |->
        CASE o = "COMPACT_EV" -> COMPACT_EV_DATA
          [] o = "SUV_EV" -> SUV_EV_DATA
          [] o = "SPORTS_EV" -> SPORTS_EV_DATA]

\* ---------------------------------------------------- what the user types

\* float(user_input) for the entries of the model
Literals ==
    ("-10" :> F(0 - 10, 0)) @@ ("-1.079" :> F(0 - 1079, 0 - 3)) @@
    ("-1" :> F(0 - 1, 0)) @@ ("0" :> Zero) @@ ("0.9" :> F(9, 0 - 1)) @@
    ("1e-13" :> F(1, 0 - 13)) @@ ("5" :> F(5, 0)) @@ ("20" :> F(20, 0)) @@
    ("50" :> F(50, 0)) @@ ("99" :> F(99, 0)) @@ ("250" :> F(250, 0)) @@
    ("799" :> F(799, 0)) @@ ("2000" :> F(2000, 0))

ValueError == [k |-> "ValueError", m |-> 0, e |-> 0]
None == [k |-> "None", m |-> 0, e |-> 0]

float(user_input) ==
    CASE user_input = "nan" -> NaN
      [] user_input = "inf" -> Inf
      [] user_input \in DOMAIN Literals -> Literals[user_input]
      [] OTHER -> ValueError

LowerTable == ("YES" :> "yes") @@ ("Y" :> "y") @@ ("No" :> "no") @@ ("N" :> "n")

\* str.lower() for the entries of the model
lower(response) ==
    IF response \in DOMAIN LowerTable THEN LowerTable[response] ELSE response

VehicleChoiceEntries == {"1", "2", "3", ""}
PresetChoiceEntries == {"1", "2", "3", "4"}
BatteryEntries == {"", "abc", "5", "50", "250"}
MassEntries == {"799", "2000"}
CdEntries == {"", "0.9"}
AreaEntries == {"", "inf"}
CrrEntries == {"", "-1"}
UsableEntries == {"", "50"}
ContinueEntries == {"yes", "Y", "No", "n", "maybe", ""}

\* What the user of one run types at the speed, slope and efficiency prompts:
\* one who drives downhill, and one who types nan.
Sessions ==
    { [speed |-> {"5", "20", "250"}, slope |-> {"", "-10", "-1.079", "20"},
       efficiency |-> {"", "0", "99"}],
      [speed |-> {"20", "nan"}, slope |-> {""},
       efficiency |-> {"", "nan"}] }

\* ---------------------------------------------------- the initial state

NoDict == [speed_kmh |-> Unbound, slope_percent |-> Unbound]
NoParams == [drivetrain_efficiency |-> Unbound, battery_usable_percent |-> Unbound]

InitialLocals ==
    [vehicle_params |-> "unbound", driving_conditions |-> NoDict,
     system_params |-> NoParams, speed_ms |-> Unbound, slope_rad |-> Unbound,
     rolling |-> Unbound, drag |-> Unbound, gradient |-> Unbound,
     total_force |-> Unbound, power_wheels |-> Unbound,
     power_battery |-> Unbound, energy_per_km |-> Unbound,
     usable_energy |-> Unbound, range_km |-> Unbound, continue_flag |-> TRUE]

NoFrame == [n \in {} |-> Unbound]
Bind(f, name, value) ==
    [n \in DOMAIN f \cup {name} |-> IF n = name THEN value ELSE f[n]]

NoIO ==
    [prompt |-> "", user_input |-> "", min_value |-> None, max_value |-> None,
     default_value |-> None, returned |-> FALSE, value |-> None, printed |-> ""]

Fixed(nan, units, decimals) == [nan |-> nan, units |-> units, decimals |-> decimals]
NoDisplay ==
    [shown |-> FALSE, range_km |-> Fixed(FALSE, 0, 0),
     energy_per_km |-> Fixed(FALSE, 0, 0), speed_kmh |-> Fixed(FALSE, 0, 0)]

NoAnswer == "<none>"

NoMemo ==
    [set |-> FALSE, vehicle |-> <<>>, driving_conditions |-> NoDict,
     system_params |-> NoParams, gradient |-> Unbound, total_force |-> Unbound,
     energy_per_km |-> Unbound, range_km |-> Unbound, displayed |-> NoDisplay]

\* the vehicle dict main's vehicle_params refers to
Vehicle == heap[locals.vehicle_params]

\* the dict's values in the order of VehicleSpec; a custom dict has no name
VehicleValues(d) ==
    <<d.mass, d.drag_coefficient, d.frontal_area, d.rolling_resistance,
      d.battery_capacity>>

Snapshot ==
    [set |-> TRUE, vehicle |-> VehicleValues(Vehicle),
     driving_conditions |-> locals.driving_conditions,
     system_params |-> locals.system_params, gradient |-> locals.gradient,
     total_force |-> locals.total_force, energy_per_km |-> locals.energy_per_km,
     range_km |-> locals.range_km, displayed |-> displayed]

Init ==
    /\ pc = "while"
    /\ locals = InitialLocals
    /\ frame = NoFrame
    /\ heap = InitialHeap
    /\ GRAVITY = F(981, 0 - 2)
    /\ AIR_DENSITY = F(1225, 0 - 3)
    /\ io = NoIO
    /\ displayed = NoDisplay
    /\ exit_printed = FALSE
    /\ error = "none"
    /\ calls = <<>>
    /\ answer = NoAnswer
    /\ memo = NoMemo
    /\ session \in Sessions
    /\ sweeps = 0

\* ----------------------------------------------------- user_interface.py

\* one pass of get_user_input's loop on the line input() read
get_user_input(prompt, user_input, min_value, max_value, default_value) ==
    LET call == [prompt |-> prompt, user_input |-> user_input,
                 min_value |-> min_value, max_value |-> max_value,
                 default_value |-> default_value]
        value == float(user_input)
    IN  IF user_input = "" /\ default_value # None
        THEN call @@ [returned |-> TRUE, value |-> default_value, printed |-> ""]
        ELSE IF value = ValueError
        THEN call @@ [returned |-> FALSE, value |-> None,
                      printed |-> "Error: Please enter a numeric value"]
        ELSE IF min_value # None /\ FLt(value, min_value)
        THEN call @@ [returned |-> FALSE, value |-> None,
                      printed |-> "Error: Value must be at least"]
        ELSE IF max_value # None /\ FGt(value, max_value)
        THEN call @@ [returned |-> FALSE, value |-> None,
                      printed |-> "Error: Value must be at most"]
        ELSE call @@ [returned |-> TRUE, value |-> value, printed |-> ""]

\* no new object: the entries are written into the dict vehicle_params
\* already refers to, a preset after an iteration that selected one
NewDictInPlace(h, d) ==
    IF locals.vehicle_params \in DOMAIN h
    THEN [o \in DOMAIN h \cup {"custom"} |->
             IF o = locals.vehicle_params \/ o = "custom"
             THEN [battery_capacity |-> d.battery_capacity, mass |-> d.mass,
                   drag_coefficient |-> d.drag_coefficient,
                   frontal_area |-> d.frontal_area,
                   rolling_resistance |-> d.rolling_resistance] @@
                  (IF o \in DOMAIN h THEN h[o] ELSE d)
             ELSE h[o]]
    ELSE [o \in DOMAIN h \cup {"custom"} |-> IF o = "custom" THEN d ELSE h[o]]

\* the dict literal _get_custom_vehicle returns: a new object
NewDict(h, d) ==
    [o \in DOMAIN h \cup {"custom"} |-> IF o = "custom" THEN d ELSE h[o]]

\* f"{x:.<decimals>f}": x rounded to that many decimals, or "nan"
FormatFixed(x, decimals) ==
    IF IsNaN(x) THEN Fixed(TRUE, 0, decimals)
    ELSE LET shift == x.e + decimals
         IN  IF shift >= 0 THEN Fixed(FALSE, x.m * Pow10(shift), decimals)
             ELSE IF 0 - shift > Digits + 1 THEN Fixed(FALSE, 0, decimals)
             ELSE LET d == Pow10(0 - shift)
                      q == Abs(x.m) \div d
                      r == Abs(x.m) % d
                      up == (2 * r > d) \/ (2 * r = d /\ q % 2 = 1)
                  IN  Fixed(FALSE, Sgn(x.m) * (IF up THEN q + 1 ELSE q), decimals)

\* the three lines display_results prints
display_results(range_km, energy_per_km, speed_kmh) ==
    [shown |-> TRUE, range_km |-> FormatFixed(range_km, 2),
     energy_per_km |-> FormatFixed(energy_per_km, 3),
     speed_kmh |-> FormatFixed(speed_kmh, 0)]

UIFrame ==
    <<heap, GRAVITY, AIR_DENSITY, displayed, exit_printed, error, answer, memo,
      session, sweeps>>

\* get_vehicle_parameters: one pass of its loop
VehicleChoice ==
    /\ pc = "vehicle_choice"
    /\ \E choice \in VehicleChoiceEntries :
          pc' = IF choice = "1" THEN "preset_choice"
                ELSE IF choice = "2" THEN "battery"
                ELSE "vehicle_choice"
    /\ UNCHANGED <<locals, frame, io, calls>>
    /\ UNCHANGED UIFrame

\* _get_preset_vehicle: one pass of its loop; a valid choice returns the preset
\* itself to main
PresetChoice ==
    /\ pc = "preset_choice"
    /\ \E choice \in PresetChoiceEntries :
          IF choice \in {"1", "2", "3"}
          THEN LET selected == CASE choice = "1" -> "COMPACT_EV"
                                 [] choice = "2" -> "SUV_EV"
                                 [] choice = "3" -> "SPORTS_EV"
               IN  /\ locals' = [locals EXCEPT !.vehicle_params = selected]
                   /\ calls' = Append(calls, "get_vehicle_parameters")
                   /\ pc' = "speed"
          ELSE UNCHANGED <<locals, calls, pc>>
    /\ UNCHANGED <<frame, io>>
    /\ UNCHANGED UIFrame

\* a get_user_input call of a user_interface function that goes on to its next
\* prompt once a value is returned
AskLocal(next, name, r) ==
    /\ io' = r
    /\ IF r.returned
       THEN frame' = Bind(frame, name, r.value) /\ pc' = next
       ELSE UNCHANGED <<frame, pc>>
    /\ UNCHANGED <<locals, calls>>
    /\ UNCHANGED UIFrame

CustomBattery ==
    /\ pc = "battery"
    /\ \E user_input \in BatteryEntries :
       AskLocal("mass", "battery",
                get_user_input("Enter battery capacity (kWh): ", user_input,
                               F(10, 0), F(200, 0), None))

CustomMass ==
    /\ pc = "mass"
    /\ \E user_input \in MassEntries :
       AskLocal("cd", "mass",
                get_user_input("Enter vehicle mass (kg): ", user_input,
                               F(800, 0), F(3000, 0), None))

CustomCd ==
    /\ pc = "cd"
    /\ \E user_input \in CdEntries :
       AskLocal("area", "cd",
                get_user_input("Enter drag coefficient (Cd): ", user_input,
                               F(15, 0 - 2), F(50, 0 - 2), F(28, 0 - 2)))

CustomArea ==
    /\ pc = "area"
    /\ \E user_input \in AreaEntries :
       AskLocal("crr", "area",
                get_user_input("Enter frontal area (m2): ", user_input,
                               F(15, 0 - 1), F(40, 0 - 1), F(22, 0 - 1)))

\* the last prompt of _get_custom_vehicle, and its return to main
CustomCrr ==
    /\ pc = "crr"
    /\ \E user_input \in CrrEntries :
          LET r == get_user_input("Enter rolling resistance (Crr): ", user_input,
                                  F(5, 0 - 3), F(20, 0 - 3), F(10, 0 - 3))
          IN  /\ io' = r
              /\ IF r.returned
                 THEN /\ heap' = NewDict(heap,
                            [battery_capacity |-> frame["battery"],
                             mass |-> frame["mass"],
                             drag_coefficient |-> frame["cd"],
                             frontal_area |-> frame["area"],
                             rolling_resistance |-> r.value])
                      /\ locals' = [locals EXCEPT !.vehicle_params = "custom"]
                      /\ frame' = NoFrame
                      /\ calls' = Append(calls, "get_vehicle_parameters")
                      /\ pc' = "speed"
                 ELSE UNCHANGED <<heap, locals, frame, calls, pc>>
    /\ UNCHANGED <<GRAVITY, AIR_DENSITY, displayed, exit_printed, error, answer,
                   memo, session, sweeps>>

\* get_driving_conditions
Speed ==
    /\ pc = "speed"
    /\ \E user_input \in session.speed :
       AskLocal("slope", "speed_kmh",
                get_user_input("Enter speed (km/h): ", user_input,
                               F(10, 0), F(200, 0), None))

Slope ==
    /\ pc = "slope"
    /\ \E user_input \in session.slope :
          LET r == get_user_input("Enter slope percentage (%): ", user_input,
                                  F(0 - 15, 0), F(15, 0), Zero)
          IN  /\ io' = r
              /\ IF r.returned
                 THEN /\ locals' = [locals EXCEPT !.driving_conditions =
                            [speed_kmh |-> frame["speed_kmh"],
                             slope_percent |-> r.value]]
                      /\ frame' = NoFrame
                      /\ calls' = Append(calls, "get_driving_conditions")
                      /\ pc' = "efficiency"
                 ELSE UNCHANGED <<locals, frame, calls, pc>>
    /\ UNCHANGED UIFrame

\* get_system_parameters
Efficiency ==
    /\ pc = "efficiency"
    /\ \E user_input \in session.efficiency :
       AskLocal("usable", "efficiency",
                get_user_input("Enter drivetrain efficiency (%, default 88): ",
                               user_input, F(70, 0), F(98, 0), F(88, 0)))

Usable ==
    /\ pc = "usable"
    /\ \E user_input \in UsableEntries :
          LET r == get_user_input("Enter battery usable percentage (%): ",
                                  user_input, F(70, 0), F(100, 0), F(90, 0))
          IN  /\ io' = r
              /\ IF r.returned
                 THEN /\ locals' = [locals EXCEPT !.system_params =
                            [drivetrain_efficiency |->
                                 FDiv(frame["efficiency"], F(100, 0)),
                             battery_usable_percent |->
                                 FDiv(r.value, F(100, 0))]]
                      /\ frame' = NoFrame
                      /\ calls' = Append(calls, "get_system_parameters")
                      /\ pc' = "convert_speed"
                 ELSE UNCHANGED <<locals, frame, calls, pc>>
    /\ UNCHANGED UIFrame

\* ask_continue: one pass of its loop
ask_continue(response) ==
    LET response_lower == lower(response)
    IN  IF response_lower \in {"yes", "y"} THEN "True"
        ELSE IF response_lower \in {"no", "n"} THEN "False"
        ELSE "again"

\* -------------------------------------------------------------- main.py

\* a statement of main that calls fname and assigns its result to a local; a
\* ZeroDivisionError raised in the call ends the program
Assign(next, fname, local, value) ==
    /\ calls' = Append(calls, fname)
    /\ IF value = ZeroDiv
       THEN /\ pc' = "crashed"
            /\ error' = "ZeroDivisionError"
            /\ UNCHANGED locals
       ELSE /\ pc' = next
            /\ locals' = [locals EXCEPT ![local] = value]
            /\ UNCHANGED error
    /\ UNCHANGED <<frame, heap, GRAVITY, AIR_DENSITY, io, displayed,
                   exit_printed, answer, memo, session, sweeps>>

\* while continue_flag: ... and the exit message after the loop
While ==
    /\ pc = "while"
    /\ IF locals.continue_flag
       THEN /\ pc' = "vehicle_choice"
            /\ calls' = <<>>
            /\ answer' = NoAnswer
            /\ UNCHANGED exit_printed
       ELSE /\ pc' = "done"
            /\ exit_printed' = TRUE
            /\ UNCHANGED <<calls, answer>>
    /\ UNCHANGED <<locals, frame, heap, GRAVITY, AIR_DENSITY, io, displayed,
                   error, memo, session, sweeps>>

ConvertSpeed ==
    /\ pc = "convert_speed"
    /\ Assign("convert_slope", "convert_kmh_to_ms", "speed_ms",
           convert_kmh_to_ms(locals.driving_conditions.speed_kmh))

ConvertSlope ==
    /\ pc = "convert_slope"
    /\ Assign("rolling", "convert_slope_percent_to_radians",
           "slope_rad",
           convert_slope_percent_to_radians(locals.driving_conditions.slope_percent))

Rolling ==
    /\ pc = "rolling"
    /\ Assign("drag", "calculate_rolling_resistance", "rolling",
           calculate_rolling_resistance(Vehicle.mass, Vehicle.rolling_resistance,
                                        GRAVITY))

Drag ==
    /\ pc = "drag"
    /\ Assign("gradient", "calculate_drag_force", "drag",
           calculate_drag_force(locals.speed_ms, Vehicle.drag_coefficient,
                                Vehicle.frontal_area, AIR_DENSITY))

Gradient ==
    /\ pc = "gradient"
    /\ Assign("total", "calculate_gradient_force", "gradient",
           calculate_gradient_force(Vehicle.mass, locals.slope_rad, GRAVITY))

Total ==
    /\ pc = "total"
    /\ Assign("power_wheels", "calculate_total_resistance", "total_force",
           calculate_total_resistance(locals.rolling, locals.drag, locals.gradient))

PowerWheels ==
    /\ pc = "power_wheels"
    /\ Assign("power_battery", "calculate_power_at_wheels",
           "power_wheels",
           calculate_power_at_wheels(locals.total_force, locals.speed_ms))

PowerBattery ==
    /\ pc = "power_battery"
    /\ Assign("energy_per_km", "calculate_power_from_battery",
           "power_battery",
           calculate_power_from_battery(locals.power_wheels,
                                        locals.system_params.drivetrain_efficiency))

EnergyPerKm ==
    /\ pc = "energy_per_km"
    /\ Assign("usable_energy", "calculate_energy_per_km",
           "energy_per_km",
           calculate_energy_per_km(locals.power_battery, locals.speed_ms))

UsableEnergy ==
    /\ pc = "usable_energy"
    /\ Assign("range", "calculate_usable_battery_energy",
           "usable_energy",
           calculate_usable_battery_energy(Vehicle.battery_capacity,
                                           locals.system_params.battery_usable_percent))

Range ==
    /\ pc = "range"
    /\ Assign("display", "calculate_range", "range_km",
           calculate_range(locals.usable_energy, locals.energy_per_km))

Display ==
    /\ pc = "display"
    /\ displayed' = display_results(locals.range_km, locals.energy_per_km,
                                    locals.driving_conditions.speed_kmh)
    /\ calls' = Append(calls, "display_results")
    /\ pc' = "ask_continue"
    /\ UNCHANGED <<locals, frame, heap, GRAVITY, AIR_DENSITY, io, exit_printed,
                   error, answer, memo, session, sweeps>>

\* continue_flag = ask_continue(); memo may keep this iteration for later
\* comparison
AskContinue ==
    /\ pc = "ask_continue"
    /\ \E response \in ContinueEntries :
          LET returns == ask_continue(response)
          IN  /\ answer' = response
              /\ IF returns = "again"
                 THEN UNCHANGED <<locals, calls, pc, memo>>
                 ELSE
                   /\ locals' = [locals EXCEPT !.continue_flag = (returns = "True")]
                   /\ calls' = Append(calls, "ask_continue")
                   /\ pc' = "while"
                   /\ memo' \in {memo, Snapshot}
    /\ UNCHANGED <<frame, heap, GRAVITY, AIR_DENSITY, io, displayed,
                   exit_printed, error, session, sweeps>>

Next ==
    \/ While
    \/ VehicleChoice
    \/ PresetChoice
    \/ CustomBattery
    \/ CustomMass
    \/ CustomCd
    \/ CustomArea
    \/ CustomCrr
    \/ Speed
    \/ Slope
    \/ Efficiency
    \/ Usable
    \/ ConvertSpeed
    \/ ConvertSlope
    \/ Rolling
    \/ Drag
    \/ Gradient
    \/ Total
    \/ PowerWheels
    \/ PowerBattery
    \/ EnergyPerKm
    \/ UsableEnergy
    \/ Range
    \/ Display
    \/ AskContinue

Spec == Init /\ [][Next]_vars

\* ------------------------------------------------- the pipeline on its own

\* The physics functions called, in main's order, by a caller that validates
\* nothing, and called again on another slope with the other inputs kept.

MaxSweeps == 1

BaseVehicle ==
    [battery_capacity |-> F(50, 0), mass |-> F(1500, 0),
     drag_coefficient |-> F(28, 0 - 2), frontal_area |-> F(22, 0 - 1),
     rolling_resistance |-> F(10, 0 - 3)]

PureVehicles ==
    { BaseVehicle,
      [BaseVehicle EXCEPT !.mass = Zero],
      [BaseVehicle EXCEPT !.mass = F(0 - 1500, 0)],
      [BaseVehicle EXCEPT !.battery_capacity = Zero],
      [BaseVehicle EXCEPT !.drag_coefficient = F(0 - 28, 0 - 2)],
      [BaseVehicle EXCEPT !.frontal_area = Zero],
      [BaseVehicle EXCEPT !.rolling_resistance = F(0 - 10, 0 - 3)] }

PureSpeeds == {F(0 - 20, 0), Zero, F(20, 0), F(100, 0)}
PureSlopes == {F(0 - 10, 0), Zero, F(1, 0 - 13), F(1, 0 - 6), F(10, 0)}
PureEfficiencies == {Zero, F(88, 0 - 2)}

InitPure ==
    /\ pc = "convert_speed"
    /\ \E v \in PureVehicles : heap = NewDict(InitialHeap, v)
    /\ \E speed_kmh \in PureSpeeds, slope_percent \in PureSlopes,
          drivetrain_efficiency \in PureEfficiencies :
          locals = [InitialLocals EXCEPT
                       !.vehicle_params = "custom",
                       !.driving_conditions =
                           [speed_kmh |-> speed_kmh,
                            slope_percent |-> slope_percent],
                       !.system_params =
                           [drivetrain_efficiency |-> drivetrain_efficiency,
                            battery_usable_percent |-> F(90, 0 - 2)]]
    /\ frame = NoFrame
    /\ GRAVITY = F(981, 0 - 2)
    /\ AIR_DENSITY = F(1225, 0 - 3)
    /\ io = NoIO
    /\ displayed = NoDisplay
    /\ exit_printed = FALSE
    /\ error = "none"
    /\ calls = <<>>
    /\ answer = NoAnswer
    /\ memo = NoMemo
    /\ session = [speed |-> {}, slope |-> {}, efficiency |-> {}]
    /\ sweeps = 0

\* the pipeline returned a range: call it again on another slope
Sweep ==
    /\ pc = "display"
    /\ sweeps < MaxSweeps
    /\ sweeps' = sweeps + 1
    /\ memo' \in {Snapshot} \cup (IF memo.set THEN {memo} ELSE {})
    /\ \E slope_percent \in PureSlopes :
          locals' = [locals EXCEPT
                        !.driving_conditions.slope_percent = slope_percent]
    /\ calls' = <<>>
    /\ pc' = "convert_speed"
    /\ UNCHANGED <<frame, heap, GRAVITY, AIR_DENSITY, io, displayed,
                   exit_printed, error, answer, session>>

NextPure ==
    \/ ConvertSpeed
    \/ ConvertSlope
    \/ Rolling
    \/ Drag
    \/ Gradient
    \/ Total
    \/ PowerWheels
    \/ PowerBattery
    \/ EnergyPerKm
    \/ UsableEnergy
    \/ Range
    \/ Sweep

SpecPure == InitPure /\ [][NextPure]_vars

\* --------------------------------------------------------------- claims

Last(q) == q[Len(q)]
Called(fname) == \E i \in 1..Len(calls) : calls[i] = fname
IsPrefix(q, r) == Len(q) <= Len(r) /\ \A i \in 1..Len(q) : q[i] = r[i]

\* the calls of one iteration of main, in the order of main.py
IterationCalls ==
    <<"get_vehicle_parameters", "get_driving_conditions", "get_system_parameters",
      "convert_kmh_to_ms", "convert_slope_percent_to_radians",
      "calculate_rolling_resistance", "calculate_drag_force",
      "calculate_gradient_force", "calculate_total_resistance",
      "calculate_power_at_wheels", "calculate_power_from_battery",
      "calculate_energy_per_km", "calculate_usable_battery_energy",
      "calculate_range", "display_results", "ask_continue">>

\* C1: whenever the computed energy per km is <= 0 the range calculation is
\* rejected with NonPositiveConsumption: calculate_range returns no range
\* (and raises nothing else), and display_results is given no negative range.
C1_NonPositiveConsumptionRejected ==
    /\ (Called("calculate_range") /\ FLe(locals.energy_per_km, Zero))
          => (pc = "crashed" /\ error = "NonPositiveConsumption")
    /\ (Called("display_results") /\ ~displayed.range_km.nan)
          => displayed.range_km.units >= 0

\* C2: calculate_energy_per_km called with speed_ms <= 0 raises InvalidSpeed
\* and returns no value.
C2_ZeroSpeedRaisesInvalidSpeed ==
    (calls # <<>> /\ Last(calls) = "calculate_energy_per_km"
        /\ FLe(locals.speed_ms, Zero))
       => (pc = "crashed" /\ error = "InvalidSpeed")

\* every physical input of the vehicle is a number > 0
ValidSpec(d) ==
    /\ validate_positive_number(d.mass)
    /\ validate_positive_number(d.battery_capacity)
    /\ validate_positive_number(d.drag_coefficient)
    /\ validate_positive_number(d.frontal_area)
    /\ validate_positive_number(d.rolling_resistance)

\* C3: when a physical input of the vehicle is <= 0 the calculation fails
\* with InvalidSpec and produces no force, power, energy or range.
C3_CoreRejectsInvalidSpec ==
    (Called("calculate_rolling_resistance") /\ ~ValidSpec(Vehicle))
       => (pc = "crashed" /\ error = "InvalidSpec" /\ locals.rolling = Unbound)

\* C4: in every run of main the drivetrain_efficiency passed to
\* calculate_power_from_battery lies in (0, 1].
C4_EfficiencyInUnitInterval ==
    (pc = "power_battery" \/ Called("calculate_power_from_battery"))
       => /\ FGt(locals.system_params.drivetrain_efficiency, Zero)
          /\ FLe(locals.system_params.drivetrain_efficiency, F(1, 0))

\* this iteration's inputs are those of the remembered one
SameInputsAsMemo ==
    /\ memo.set
    /\ memo.vehicle = VehicleValues(Vehicle)
    /\ memo.driving_conditions = locals.driving_conditions
    /\ memo.system_params = locals.system_params

\* C5: an iteration of main given the inputs of an earlier iteration displays
\* what that one displayed and computes the same range and energy per km,
\* whatever ran in between.
C5_SameInputsSameResults ==
    (pc = "ask_continue" /\ SameInputsAsMemo)
       => /\ displayed = memo.displayed
          /\ locals.range_km = memo.range_km
          /\ locals.energy_per_km = memo.energy_per_km

\* an iteration on a preset has displayed a range the second time
C5_Witness ==
    /\ pc = "ask_continue"
    /\ SameInputsAsMemo
    /\ locals.vehicle_params \in Presets
    /\ displayed.shown
    /\ displayed.range_km.units > 0

\* C6: GRAVITY, AIR_DENSITY and every field of the three presets hold their
\* start-up values in every state of the program.
C6_ReferenceDataNeverMutated ==
    /\ GRAVITY = F(981, 0 - 2)
    /\ AIR_DENSITY = F(1225, 0 - 3)
    /\ \A o \in Presets : heap[o] = InitialHeap[o]

\* a custom vehicle was entered in an iteration after one that ran on a preset
C6_Witness ==
    /\ memo.set
    /\ memo.vehicle = VehicleValues(InitialHeap["SUV_EV"])
    /\ locals.vehicle_params = "custom"
    /\ pc = "ask_continue"

\* the inputs under which C7 compares two slopes
C7_Pre ==
    /\ pc = "display"
    /\ memo.set
    /\ ValidSpec(Vehicle)
    /\ FGt(locals.driving_conditions.speed_kmh, Zero)
    /\ FGt(locals.system_params.drivetrain_efficiency, Zero)

SlopePercent == locals.driving_conditions.slope_percent

\* C7 (as amended): the gradient force is 0 at slope 0 and never has the sign
\* opposite to the slope's; an uphill slope gives a total resistance no
\* smaller and an estimated range no larger than the flat road with the same
\* vehicle, speed and system parameters.
C7_SlopeMonotone ==
    /\ (Called("calculate_gradient_force") /\ ValidSpec(Vehicle))
          => /\ SlopePercent = Zero => locals.gradient = Zero
             /\ FGt(SlopePercent, Zero) => FGe(locals.gradient, Zero)
             /\ FLt(SlopePercent, Zero) => FLe(locals.gradient, Zero)
    /\ (C7_Pre /\ memo.driving_conditions.slope_percent = Zero
            /\ FGt(SlopePercent, Zero))
          => /\ FGe(locals.total_force, memo.total_force)
             /\ FLe(locals.range_km, memo.range_km)
    /\ (C7_Pre /\ FGt(memo.driving_conditions.slope_percent, Zero)
            /\ SlopePercent = Zero)
          => /\ FLe(locals.total_force, memo.total_force)
             /\ FGe(locals.range_km, memo.range_km)

\* C7 as stated: the gradient force has the sign of the slope, and an uphill
\* slope gives a strictly larger total resistance and a strictly smaller
\* range than the flat road.
C7_SlopeStrictlyMonotone ==
    /\ (Called("calculate_gradient_force") /\ ValidSpec(Vehicle))
          => /\ SlopePercent = Zero => locals.gradient = Zero
             /\ FGt(SlopePercent, Zero) => FGt(locals.gradient, Zero)
             /\ FLt(SlopePercent, Zero) => FLt(locals.gradient, Zero)
    /\ (C7_Pre /\ memo.driving_conditions.slope_percent = Zero
            /\ FGt(SlopePercent, Zero))
          => /\ FGt(locals.total_force, memo.total_force)
             /\ FLt(locals.range_km, memo.range_km)
    /\ (C7_Pre /\ FGt(memo.driving_conditions.slope_percent, Zero)
            /\ SlopePercent = Zero)
          => /\ FLt(locals.total_force, memo.total_force)
             /\ FGt(locals.range_km, memo.range_km)

\* the pipeline ran on the flat road and then on a 10 % climb, which gave a
\* larger total resistance and a smaller range
C7_Witness ==
    /\ C7_Pre
    /\ memo.driving_conditions.slope_percent = Zero
    /\ SlopePercent = F(10, 0)
    /\ FGt(locals.gradient, Zero)
    /\ FGt(locals.total_force, memo.total_force)
    /\ FLt(locals.range_km, memo.range_km)

\* C8: get_user_input returns only the default (on an empty entry, when there
\* is one) or a number parsed from the entry that lies within
\* [min_value, max_value], and re-prompts on any other entry.
C8_OnlyValidatedValues ==
    io.prompt # ""
       => LET v == float(io.user_input)
              defaulted == io.user_input = "" /\ io.default_value # None
          IN  /\ io.returned
                    => \/ defaulted /\ io.value = io.default_value
                       \/ /\ ~defaulted
                          /\ io.value = v
                          /\ io.min_value # None => FLe(io.min_value, v)
                          /\ io.max_value # None => FLe(v, io.max_value)
              /\ (~defaulted /\ v = ValueError) => ~io.returned
              /\ (~defaulted /\ v # ValueError /\ io.min_value # None
                     /\ FLt(v, io.min_value)) => ~io.returned
              /\ (~defaulted /\ v # ValueError /\ io.max_value # None
                     /\ FGt(v, io.max_value)) => ~io.returned

YesAnswers == {"yes", "YES", "Yes", "y", "Y"}
NoAnswers == {"no", "NO", "No", "n", "N"}

\* C9: every iteration makes the calls of IterationCalls in that order, each
\* once, display_results before ask_continue; ask_continue returns True on
\* yes/y and False on no/n and re-prompts otherwise; a new iteration starts
\* iff it returned True, and the exit message ends the program iff it
\* returned False.
C9_IterationOrder ==
    /\ IsPrefix(calls, IterationCalls)
    /\ pc = "ask_continue" => calls = SubSeq(IterationCalls, 1, 15)
    /\ pc \in {"while", "done"} => calls = IterationCalls \/ answer = NoAnswer
    /\ pc # "crashed"
    /\ (pc = "ask_continue" /\ answer # NoAnswer)
          => answer \notin YesAnswers \cup NoAnswers
    /\ (pc = "while" /\ answer # NoAnswer)
          => /\ answer \in YesAnswers \cup NoAnswers
             /\ locals.continue_flag <=> answer \in YesAnswers
    /\ pc = "done" => (~locals.continue_flag /\ answer \in NoAnswers)
    /\ exit_printed <=> pc = "done"

\* C10: in every run of main the speed passed to calculate_energy_per_km is
\* strictly positive.
C10_SpeedPositiveAtEnergyPerKm ==
    (pc = "energy_per_km" \/ Called("calculate_energy_per_km"))
       => FGt(locals.speed_ms, Zero)

====
